---- MODULE Spec2Model ----
(***************************************************************************)
(* Model of the LEGO track layout service (src/main.py): the geometry of   *)
(* track pieces, the closed-loop validator, the oval generator, the        *)
(* layout serializer and the two HTTP handlers.                            *)
(*                                                                         *)
(* Numbers.  The code computes in floating point.  The model uses          *)
(* integers: lengths in thousandths of a stud, angles and tolerances in    *)
(* thousandths of a degree/stud (0.1 is 100, 22.5 degrees is 22500, 16     *)
(* studs is 16000).  Sines and cosines are tabulated in ten-thousandths    *)
(* and every rotated coordinate is rounded to the nearest thousandth.      *)
(***************************************************************************)
EXTENDS Integers, Sequences, FiniteSets, TLC

VARIABLES pieces, made, op, tolerance, verdict, layout, rebuilt, response, inventory

\* the path expanders of src/draw.py and src/draw2.py: the piece list given
\* (track); for draw_track_sequence the number of pieces processed (drawn),
\* its live list (paths) and the list before the last piece (was); the same
\* for create_track_layout (laid, paths2, was2)
VARIABLES track, drawn, paths, was, laid, paths2, was2

\* requests in flight against the one layout_generator: the arguments of each
\* call (calls), where it stands (pc), the lists the calls' local
\* geometric_pieces are bound to (lists), the index of the rebuild loop
\* (cursor), the canonical piece transform was last called on (receiver),
\* what the call returned (returned), whether it took a step while another
\* call was under way (overlap), and the generator's fields (generator)
VARIABLES calls, pc, lists, cursor, receiver, returned, overlap, generator

\* TrackGeometry.transform called on a canonical piece with a rotation given
\* as a float: the piece, the rotation and the angle returned (turned)
VARIABLES turned

serviceVars == <<pieces, made, op, tolerance, verdict, layout, rebuilt, response, inventory>>

drawVars == <<track, drawn, paths, was, laid, paths2, was2>>

concVars == <<calls, pc, lists, cursor, receiver, returned, overlap, generator>>

floatVars == <<turned>>

vars == <<serviceVars, drawVars, concVars, floatVars>>

(***************************************************************************)
(* Bounds of the exploration.                                              *)
(***************************************************************************)
MaxLen == 3
MaxInv == 2
MaxPieces == 3
MaxRequests == 2
MaxTurns == 2

(***************************************************************************)
(* Program constants, in the model's units.                                *)
(***************************************************************************)
STRAIGHT_LENGTH == 16000
ANGLE == 22500
CURVE_END_X == 15307
CURVE_END_Y == 3045
FULL_TURN == 360000
DEFAULT_TOLERANCE == 100
CURVED_THRESHOLD == 100
MIN_CURVED == 16
MIN_STRAIGHT == 2
HTTP_BAD_REQUEST == 400
HTTP_OK == 200

\* Python's None, as the value of an Optional result
None == [none |-> TRUE]

IsNone(v) == "none" \in DOMAIN v

\* the verdict of a validation that printed no failure
NoFailure == "NoFailure"

Abs(n) == IF n < 0 THEN -n ELSE n

\* class Point
Point(px, py) == [x |-> px, y |-> py]

Origin == Point(0, 0)

\* p.distance_to(q) > tol, without the square root: for tol >= 0 the distance
\* exceeds tol exactly when dx^2 + dy^2 > tol^2; a coordinate difference
\* beyond tol decides it alone (and keeps the squares small).
DistanceExceeds(p, q, tol) ==
    LET dx == Abs(p.x - q.x)
        dy == Abs(p.y - q.y)
    IN  IF tol < 0 THEN TRUE
        ELSE dx > tol \/ dy > tol \/ dx * dx + dy * dy > tol * tol

\* math.cos / math.sin of multiples of 22.5 degrees, in ten-thousandths
Cos16 == << 10000, 9239, 7071, 3827, 0, -3827, -7071, -9239,
            -10000, -9239, -7071, -3827, 0, 3827, 7071, 9239 >>

Sin16 == << 0, 3827, 7071, 9239, 10000, 9239, 7071, 3827,
            0, -3827, -7071, -9239, -10000, -9239, -7071, -3827 >>

\* math.cos(math.radians(rotation)), in ten-thousandths
CosOf(rotation) ==
    LET r == rotation % FULL_TURN
    IN  IF r % ANGLE = 0 THEN Cos16[(r \div ANGLE) + 1]
        ELSE CASE r = 1000 -> 9998
               [] r = 359000 -> 9998

\* math.sin(math.radians(rotation)), in ten-thousandths
SinOf(rotation) ==
    LET r == rotation % FULL_TURN
    IN  IF r % ANGLE = 0 THEN Sin16[(r \div ANGLE) + 1]
        ELSE CASE r = 1000 -> 175
               [] r = 359000 -> -175

\* a product of a length and a tabulated sine/cosine, rounded to a length
Scaled(n) == (n + 5000) \div 10000

\* class TrackGeometry
TrackGeometry(s, e, a) == [start |-> s, end |-> e, angle |-> a]

\* TrackGeometry.from_straight
from_straight == TrackGeometry(Origin, Point(STRAIGHT_LENGTH, 0), 0)

\* TrackGeometry.from_curve
from_curve == TrackGeometry(Origin, Point(CURVE_END_X, CURVE_END_Y), ANGLE)

\* the angle of the geometry transform returns (line 93)
TransformedAngle(angle, rotation) == (angle + rotation) % FULL_TURN

\* TrackGeometry.transform
transform(self, position, rotation) ==
    LET cos_a == CosOf(rotation)
        sin_a == SinOf(rotation)
        new_start_x == Scaled(self.start.x * cos_a - self.start.y * sin_a) + position.x
        new_start_y == Scaled(self.start.x * sin_a + self.start.y * cos_a) + position.y
        new_end_x == Scaled(self.end.x * cos_a - self.end.y * sin_a) + position.x
        new_end_y == Scaled(self.end.x * sin_a + self.end.y * cos_a) + position.y
    IN  TrackGeometry(Point(new_start_x, new_start_y),
                      Point(new_end_x, new_end_y),
                      TransformedAngle(self.angle, rotation))

(***************************************************************************)
(* LayoutGenerator.generate_oval.  The loop state is (pieces, current_pos, *)
(* cumulative_rotation); the ghost list "how" records for each piece the   *)
(* canonical piece it was made from and the rotation it was placed with.   *)
(***************************************************************************)
Placed(kind, rotation) == [kind |-> kind, rotation |-> rotation]

OvalState(ps, how, pos, rot) ==
    [pieces |-> ps, how |-> how, current_pos |-> pos, cumulative_rotation |-> rot]

\* one pass of "for i in range(8)" (lines 123-130 and 139-144)
RECURSIVE CurvedSection(_, _)
CurvedSection(st, n) ==
    IF n = 0 THEN st
    ELSE LET curve == from_curve
             transformed == transform(curve, st.current_pos, st.cumulative_rotation)
         IN  CurvedSection(
                 OvalState(Append(st.pieces, transformed),
                           Append(st.how, Placed("curved", st.cumulative_rotation)),
                           transformed.end,
                           st.cumulative_rotation + curve.angle),
                 n - 1)

\* a straight section after which the next piece starts where the straight
\* started
StraightSectionInPlace(st) ==
    LET straight == from_straight
        transformed == transform(straight, st.current_pos, st.cumulative_rotation)
    IN  OvalState(Append(st.pieces, transformed),
                  Append(st.how, Placed("straight", st.cumulative_rotation)),
                  st.current_pos,
                  st.cumulative_rotation)

\* a straight section (lines 133-136 and 147-149)
StraightSection(st) ==
    LET straight == from_straight
        transformed == transform(straight, st.current_pos, st.cumulative_rotation)
    IN  OvalState(Append(st.pieces, transformed),
                  Append(st.how, Placed("straight", st.cumulative_rotation)),
                  transformed.end,
                  st.cumulative_rotation)

CURVES_PER_SECTION == 8

\* an oval whose second arc follows the first without a straight between
OvalRunOneStraight ==
    StraightSection(
        CurvedSection(
            CurvedSection(OvalState(<<>>, <<>>, Origin, 0), CURVES_PER_SECTION),
            CURVES_PER_SECTION))

OvalRun ==
    StraightSection(
        CurvedSection(
            StraightSection(
                CurvedSection(OvalState(<<>>, <<>>, Origin, 0), CURVES_PER_SECTION)),
            CURVES_PER_SECTION))

generate_oval == OvalRun.pieces

(***************************************************************************)
(* LayoutGenerator.validate_layout.  The code returns a bool and prints    *)
(* which joint failed; the verdict record carries the bool (valid) and the *)
(* printed diagnostic: its kind and the two piece indexes it names (first, *)
(* second), 0-based as in the code.                                        *)
(***************************************************************************)
At(ps, i) == ps[i + 1]

Verdict(valid, kind, first, second) ==
    [valid |-> valid, kind |-> kind, first |-> first, second |-> second]

\* line 176
AngleDiff(a, b) == Abs((a % FULL_TURN) - (b % FULL_TURN))

\* a validator that subtracts headings without the wrap-around at 360
AngleMisalignedRaw(a, b, tol) == AngleDiff(a, b) > tol

\* line 177: the condition under which the joint is reported misaligned
AngleMisaligned(a, b, tol) ==
    AngleDiff(a, b) > tol /\ Abs(FULL_TURN - AngleDiff(a, b)) > tol

\* a validator that checks the heading of a joint before its position
RECURSIVE CheckJointsHeadingFirst(_, _, _)
CheckJointsHeadingFirst(ps, i, tol) ==
    IF i >= Len(ps) - 1 THEN Verdict(TRUE, NoFailure, 0, 0)
    ELSE LET current == At(ps, i)
             next_piece == At(ps, i + 1)
         IN  IF AngleMisaligned(current.angle, next_piece.angle, tol)
             THEN Verdict(FALSE, "HeadingMismatch", i, i + 1)
             ELSE IF DistanceExceeds(current.end, next_piece.start, tol)
             THEN Verdict(FALSE, "PositionGap", i, i + 1)
             ELSE CheckJointsHeadingFirst(ps, i + 1, tol)

\* the for loop of lines 161-180, from joint i on
RECURSIVE CheckJoints(_, _, _)
CheckJoints(ps, i, tol) ==
    IF i >= Len(ps) - 1 THEN Verdict(TRUE, NoFailure, 0, 0)
    ELSE LET current == At(ps, i)
             next_piece == At(ps, i + 1)
         IN  IF DistanceExceeds(current.end, next_piece.start, tol)
             THEN Verdict(FALSE, "PositionGap", i, i + 1)
             ELSE IF AngleMisaligned(current.angle, next_piece.angle, tol)
             THEN Verdict(FALSE, "HeadingMismatch", i, i + 1)
             ELSE CheckJoints(ps, i + 1, tol)

\* lines 182-192
CheckClosure(ps, tol) ==
    IF DistanceExceeds(At(ps, Len(ps) - 1).end, At(ps, 0).start, tol)
    THEN Verdict(FALSE, "Closure", Len(ps) - 1, 0)
    ELSE Verdict(TRUE, NoFailure, 0, 0)

\* a validator without the guard of lines 155-156: the empty list has no
\* joint to fail
validate_layout_unguarded(ps, tol) ==
    LET joints == CheckJoints(ps, 0, tol)
    IN  IF joints.valid /\ ps # <<>> THEN CheckClosure(ps, tol) ELSE joints

validate_layout(ps, tol) ==
    IF ps = <<>> THEN Verdict(FALSE, "Empty", 0, 0)
    ELSE LET joints == CheckJoints(ps, 0, tol)
         IN  IF joints.valid THEN CheckClosure(ps, tol) ELSE joints

(***************************************************************************)
(* LayoutGenerator.convert_to_layout.  An id f"{prefix}_{i}" is the pair   *)
(* <<prefix, i>>; a position list [x, y] is the pair <<x, y>>.             *)
(***************************************************************************)
\* line 204: is_curved = abs(piece.angle) > 0.1
IsCurved(piece) == Abs(piece.angle) > CURVED_THRESHOLD

\* lines 205, 219, 229, 230
PieceId(ps, i) == << IF IsCurved(At(ps, i)) THEN "curve" ELSE "straight", i >>

\* line 210
PieceType(piece) == IF IsCurved(piece) THEN "curved" ELSE "straight"

\* line 214
RecordedRotation(piece) == piece.angle

\* lines 208-215
LayoutPiece(ps, i) ==
    LET piece == At(ps, i)
    IN  [id |-> PieceId(ps, i),
         type |-> PieceType(piece),
         length |-> STRAIGHT_LENGTH,
         connections |-> <<"left", "right">>,
         position |-> <<piece.start.x, piece.start.y>>,
         rotation |-> RecordedRotation(piece)]

Connection(id1, id2) ==
    [piece1_id |-> id1, piece2_id |-> id2, point1 |-> "right", point2 |-> "left"]

\* lines 217-225, for i = 1 .. len(pieces)-1
ChainConnections(ps) ==
    [i \in 1..(Len(ps) - 1) |-> Connection(PieceId(ps, i - 1), PieceId(ps, i))]

\* a serializer that closes the loop on the last piece itself
ClosingConnectionToLast(ps) ==
    Connection(PieceId(ps, Len(ps) - 1), PieceId(ps, Len(ps) - 1))

\* lines 227-233
ClosingConnection(ps) == Connection(PieceId(ps, Len(ps) - 1), PieceId(ps, 0))

convert_to_layout(ps) ==
    IF ~validate_layout(ps, DEFAULT_TOLERANCE).valid THEN None
    ELSE [pieces |-> [i \in 1..Len(ps) |-> LayoutPiece(ps, i - 1)],
          connections |-> Append(ChainConnections(ps), ClosingConnection(ps))]

(***************************************************************************)
(* LayoutGenerator.generate_layouts.  A dict is a function on its keys.    *)
(***************************************************************************)
\* a dict whose entry for a key already there grows by the new value
PutAdded(d, k, v) ==
    [key \in (DOMAIN d) \cup {k} |->
        IF key = k THEN (IF k \in DOMAIN d THEN d[k] + v ELSE v) ELSE d[key]]

Put(d, k, v) == [key \in (DOMAIN d) \cup {k} |-> IF key = k THEN v ELSE d[key]]

Get(d, k, default) == IF k \in DOMAIN d THEN d[k] ELSE default

\* lines 245-247: piece_counts after the first n entries
RECURSIVE PieceCounts(_, _)
PieceCounts(available_pieces, n) ==
    IF n = 0 THEN <<>>
    ELSE Put(PieceCounts(available_pieces, n - 1),
             available_pieces[n].type, available_pieces[n].count)

\* a gate that is content with either of the two counts
InventorySufficesEither(available_pieces) ==
    LET piece_counts == PieceCounts(available_pieces, Len(available_pieces))
    IN  \/ Get(piece_counts, "curved", 0) >= MIN_CURVED
        \/ Get(piece_counts, "straight", 0) >= MIN_STRAIGHT

\* line 252
InventorySuffices(available_pieces) ==
    LET piece_counts == PieceCounts(available_pieces, Len(available_pieces))
    IN  /\ Get(piece_counts, "curved", 0) >= MIN_CURVED
        /\ Get(piece_counts, "straight", 0) >= MIN_STRAIGHT

generate_layouts(available_pieces) ==
    IF InventorySuffices(available_pieces)
    THEN LET geometric_pieces == generate_oval
         IN  IF validate_layout(geometric_pieces, DEFAULT_TOLERANCE).valid
             THEN LET result == convert_to_layout(geometric_pieces)
                  IN  IF IsNone(result) THEN <<>> ELSE <<result>>
             ELSE <<>>
    ELSE <<>>

(***************************************************************************)
(* The handlers.  A posted layout or piece is a function on the keys it    *)
(* has; reading a key it lacks raises KeyError, which the handler turns    *)
(* into HTTP 400.                                                          *)
(***************************************************************************)
\* POST /api/generate-layouts
generate_layouts_endpoint(available_pieces) ==
    LET layouts == generate_layouts(available_pieces)
    IN  [status |-> HTTP_OK, success |-> TRUE, layouts |-> layouts, count |-> Len(layouts)]

\* lines 292-295
CanonicalOf(type) == IF type = "curved" THEN from_curve ELSE from_straight

\* lines 291-300: the loop over the first n records; raised says a KeyError
\* stopped it, geometric_pieces is the list appended to so far
RECURSIVE Rebuild(_, _)
Rebuild(records, n) ==
    IF n = 0 THEN [raised |-> FALSE, geometric_pieces |-> <<>>]
    ELSE LET before == Rebuild(records, n - 1)
             piece == records[n]
         IN  IF before.raised THEN before
             ELSE IF {"type", "position", "rotation"} \subseteq DOMAIN piece
             THEN LET geom == CanonicalOf(piece.type)
                      pos == Point(piece.position[1], piece.position[2])
                  IN  [raised |-> FALSE,
                       geometric_pieces |->
                           Append(before.geometric_pieces,
                                  transform(geom, pos, piece.rotation))]
             ELSE [raised |-> TRUE, geometric_pieces |-> before.geometric_pieces]

BadRequest == [status |-> HTTP_BAD_REQUEST, called |-> FALSE, geometric_pieces |-> <<>>]

\* a handler that validates whatever the loop rebuilt before the KeyError
validate_layout_endpoint_partial(posted) ==
    IF ~({"pieces", "connections"} \subseteq DOMAIN posted) THEN BadRequest
    ELSE LET loop == Rebuild(posted.pieces, Len(posted.pieces))
             geometric_pieces == loop.geometric_pieces
         IN  [status |-> HTTP_OK,
              valid |-> validate_layout(geometric_pieces, DEFAULT_TOLERANCE).valid,
              called |-> TRUE,
              geometric_pieces |-> geometric_pieces]

\* POST /api/validate-layout; called says whether the validator was invoked
validate_layout_endpoint(posted) ==
    IF ~({"pieces", "connections"} \subseteq DOMAIN posted) THEN BadRequest
    ELSE LET loop == Rebuild(posted.pieces, Len(posted.pieces))
             geometric_pieces == loop.geometric_pieces
         IN  IF loop.raised THEN BadRequest
             ELSE [status |-> HTTP_OK,
                   valid |-> validate_layout(geometric_pieces, DEFAULT_TOLERANCE).valid,
                   called |-> TRUE,
                   geometric_pieces |-> geometric_pieces]

(***************************************************************************)
(* src/draw.py: the analytic path expander.  A pose is the tuple (x, y,    *)
(* angle) of the code, lengths in thousandths of a stud; a TrackPiece is   *)
(* its type and direction.  The drawing the methods append to is left out. *)
(***************************************************************************)
CURVE_OUTER_RADIUS == 40000
DRAW_STRAIGHT_LENGTH == 16000
SWEEP_ANGLE == 22500
SWITCH_LENGTH == 32000
DIVERGING_ANGLE == 22500

TrackPiece(type, direction) == [type |-> type, direction |-> direction]

\* paths = [(0, 0, 0)]
InitialPaths == << <<0, 0, 0>> >>

\* a curve that turns only when it is a right curve
CurveEndAngleRightOnly(angle, direction) ==
    IF direction = "right" THEN angle + SWEEP_ANGLE ELSE angle

\* line 27: end_angle
CurveEndAngle(angle, direction) ==
    IF direction = "right" THEN angle + SWEEP_ANGLE ELSE angle - SWEEP_ANGLE

\* TrackSystem.create_curved_segment, its return value
create_curved_segment(x, y, angle, direction) ==
    LET end_angle == CurveEndAngle(angle, direction)
        center_x == IF direction = "right"
                    THEN x - Scaled(CURVE_OUTER_RADIUS * SinOf(angle))
                    ELSE x + Scaled(CURVE_OUTER_RADIUS * SinOf(angle))
        center_y == IF direction = "right"
                    THEN y + Scaled(CURVE_OUTER_RADIUS * CosOf(angle))
                    ELSE y - Scaled(CURVE_OUTER_RADIUS * CosOf(angle))
        outer_end_x == IF direction = "right"
                       THEN center_x + Scaled(CURVE_OUTER_RADIUS * SinOf(end_angle))
                       ELSE center_x - Scaled(CURVE_OUTER_RADIUS * SinOf(end_angle))
        outer_end_y == IF direction = "right"
                       THEN center_y - Scaled(CURVE_OUTER_RADIUS * CosOf(end_angle))
                       ELSE center_y + Scaled(CURVE_OUTER_RADIUS * CosOf(end_angle))
    IN  <<outer_end_x, outer_end_y, end_angle>>

\* TrackSystem.create_straight_segment, its return value
create_straight_segment(x, y, angle) ==
    << x + Scaled(DRAW_STRAIGHT_LENGTH * CosOf(angle)),
       y + Scaled(DRAW_STRAIGHT_LENGTH * SinOf(angle)),
       angle >>

\* a switch that diverges to the same side whatever its direction
DivergingEndAngleOneSide(angle, direction) == angle + DIVERGING_ANGLE

\* line 162: diverging_end_angle
DivergingEndAngle(angle, direction) ==
    angle + (IF direction = "right" THEN DIVERGING_ANGLE ELSE -DIVERGING_ANGLE)

\* TrackSystem.create_switch_segment, its return value
create_switch_segment(x, y, angle, direction) ==
    LET diverging_rad == DivergingEndAngle(angle, direction)
    IN  << x + Scaled(SWITCH_LENGTH * CosOf(angle)),
           y + Scaled(SWITCH_LENGTH * SinOf(angle)),
           angle,
           x + Scaled(SWITCH_LENGTH * CosOf(diverging_rad)),
           y + Scaled(SWITCH_LENGTH * SinOf(diverging_rad)),
           DivergingEndAngle(angle, direction) >>

\* a loop body that appends the diverging route before the straight one
DrawFromDivergingFirst(pose, piece) ==
    IF piece.type = "curve"
    THEN << create_curved_segment(pose[1], pose[2], pose[3], piece.direction) >>
    ELSE IF piece.type = "switch"
    THEN LET s == create_switch_segment(pose[1], pose[2], pose[3], piece.direction)
         IN  << <<s[4], s[5], s[6]>>, <<s[1], s[2], s[3]>> >>
    ELSE << create_straight_segment(pose[1], pose[2], pose[3]) >>

\* a loop body that follows only the straight route of a switch
DrawFromStraightOnly(pose, piece) ==
    IF piece.type = "curve"
    THEN << create_curved_segment(pose[1], pose[2], pose[3], piece.direction) >>
    ELSE IF piece.type = "switch"
    THEN LET s == create_switch_segment(pose[1], pose[2], pose[3], piece.direction)
         IN  << <<s[1], s[2], s[3]>> >>
    ELSE << create_straight_segment(pose[1], pose[2], pose[3]) >>

\* lines 175-194: what one live pose contributes to new_paths
DrawFrom(pose, piece) ==
    IF piece.type = "curve"
    THEN << create_curved_segment(pose[1], pose[2], pose[3], piece.direction) >>
    ELSE IF piece.type = "switch"
    THEN LET s == create_switch_segment(pose[1], pose[2], pose[3], piece.direction)
         IN  << <<s[1], s[2], s[3]>>, <<s[4], s[5], s[6]>> >>
    ELSE << create_straight_segment(pose[1], pose[2], pose[3]) >>

\* lines 173-195: new_paths after the first n live poses
RECURSIVE DrawPiece(_, _, _)
DrawPiece(live, piece, n) ==
    IF n = 0 THEN <<>>
    ELSE DrawPiece(live, piece, n - 1) \o DrawFrom(live[n], piece)

(***************************************************************************)
(* src/draw2.py: the path expander with offsets measured from the SVG      *)
(* assets.  Lengths are in hundredths of the file's units (160 is 16000).  *)
(***************************************************************************)
LAYOUT_STRAIGHT_LENGTH == 16000
LAYOUT_SWEEP_ANGLE == 22500
DIVERGE_ANGLE == 22500

\* line 158: end_angle
LayoutCurveEndAngle(angle, direction) ==
    angle + (IF direction = "right" THEN LAYOUT_SWEEP_ANGLE ELSE -LAYOUT_SWEEP_ANGLE)

\* lines 186-189 and 214-220: the offset (dx, dy) turned by the angle
Offset(x, y, angle, dx, dy) ==
    << x + Scaled(dx * CosOf(angle) - dy * SinOf(angle)),
       y + Scaled(dx * SinOf(angle) + dy * CosOf(angle)) >>

\* TrackSystem.add_straight_segment, its return value
add_straight_segment(x, y, angle) ==
    << x + Scaled(LAYOUT_STRAIGHT_LENGTH * CosOf(angle)),
       y + Scaled(LAYOUT_STRAIGHT_LENGTH * SinOf(angle)),
       angle >>

\* TrackSystem.add_curved_segment, its return value (dx, dy of lines 164-165
\* and 178-179)
add_curved_segment(x, y, angle, direction) ==
    LET end_angle == LayoutCurveEndAngle(angle, direction)
        end == IF direction = "right"
               THEN Offset(x, y, angle, 17050, 3350)
               ELSE Offset(x, y, angle, 14000, -2750)
    IN  <<end[1], end[2], end_angle>>

\* a diverging route that always turns to the left
LayoutDivergingEndAngleLeft(angle, direction) == angle - DIVERGE_ANGLE

\* line 207: diverging_end_angle
LayoutDivergingEndAngle(angle, direction) ==
    angle + (IF direction = "right" THEN DIVERGE_ANGLE ELSE -DIVERGE_ANGLE)

\* TrackSystem.add_switch_segment, its return value (dx, dy of lines 212-213
\* and 217-218)
add_switch_segment(x, y, angle, direction) ==
    LET switch_length == LAYOUT_STRAIGHT_LENGTH * 2
        diverging == IF direction = "right"
                     THEN Offset(x, y, angle, 33950, 13250)
                     ELSE Offset(x, y, angle, 28284, -11580)
    IN  << x + Scaled(switch_length * CosOf(angle)),
           y + Scaled(switch_length * SinOf(angle)),
           angle,
           diverging[1],
           diverging[2],
           LayoutDivergingEndAngle(angle, direction) >>

\* lines 232-250: what one live pose contributes to new_paths
LayoutFrom(pose, piece) ==
    IF piece.type = "curve"
    THEN << add_curved_segment(pose[1], pose[2], pose[3], piece.direction) >>
    ELSE IF piece.type = "switch"
    THEN LET s == add_switch_segment(pose[1], pose[2], pose[3], piece.direction)
         IN  << <<s[1], s[2], s[3]>>, <<s[4], s[5], s[6]>> >>
    ELSE << add_straight_segment(pose[1], pose[2], pose[3]) >>

\* lines 230-251: new_paths after the first n live poses
RECURSIVE LayoutPieceStep(_, _, _)
LayoutPieceStep(live, piece, n) ==
    IF n = 0 THEN <<>>
    ELSE LayoutPieceStep(live, piece, n - 1) \o LayoutFrom(live[n], piece)

(***************************************************************************)
(* The state machine.  The service keeps nothing between requests; the     *)
(* state is what one caller holds: the piece list it composes (pieces),    *)
(* how each piece was made (made, a ghost), the last operation (op), and   *)
(* what that operation was given and returned.                             *)
(***************************************************************************)
Rotations == {0, 180000, -22500, 382500}
Headings == {0, 1000, 359000, -1000, 180000}
Gaps == {0, 5000}
Tolerances == {100, 1000, 5000}
Kinds == {"curved", "straight"}
InventoryTypes == {"curved", "straight", "switch"}
InventoryCounts == {1, 2, 15, 16}

NoVerdict == Verdict(FALSE, "NotRun", 0, 0)
NoResponse == [status |-> 0]

\* where the next piece of the list starts: the end of the last piece
CurrentPos == IF pieces = <<>> THEN Origin ELSE pieces[Len(pieces)].end

Canonical(kind) == IF kind = "curved" THEN from_curve ELSE from_straight

\* the test's sample layout (src/test/test.py, test_validate_layout)
SampleLayout ==
    [pieces |-> << [id |-> <<"straight", 1>>, type |-> "straight", length |-> STRAIGHT_LENGTH,
                    connections |-> <<"left", "right">>, position |-> <<0, 0>>, rotation |-> 0],
                   [id |-> <<"curve", 1>>, type |-> "curved", length |-> STRAIGHT_LENGTH,
                    connections |-> <<"left", "right">>, position |-> <<STRAIGHT_LENGTH, 0>>,
                    rotation |-> ANGLE] >>,
     connections |-> << Connection(<<"straight", 1>>, <<"curve", 1>>) >>]

EmptyLayout == [pieces |-> <<>>, connections |-> <<>>]

\* layouts a client may post besides one it was given: the empty layout, the
\* test's sample, and the sample with a key or a type changed
PostedLayouts ==
    { EmptyLayout,
      SampleLayout,
      [pieces |-> SampleLayout.pieces],
      [connections |-> <<>>],
      [SampleLayout EXCEPT !.pieces[1].type = "switch"],
      [SampleLayout EXCEPT !.pieces[2].type = "crossing"],
      [SampleLayout EXCEPT !.pieces[2] = [type |-> "curved", rotation |-> ANGLE]],
      [SampleLayout EXCEPT !.pieces[2] = [type |-> "curved", position |-> <<0, 0>>]],
      [SampleLayout EXCEPT !.pieces[1] = [position |-> <<0, 0>>, rotation |-> 0]] }

\* an inventory entry
Entry(type, count) == [type |-> type, count |-> count]

\* inventories that name curved pieces twice, next to enough straight pieces
RepeatedInventories ==
    { << Entry("curved", 8), Entry("curved", 8), Entry("straight", MIN_STRAIGHT) >>,
      << Entry("curved", MIN_CURVED), Entry("curved", 1), Entry("straight", MIN_STRAIGHT) >>,
      << Entry("curved", 1), Entry("curved", MIN_CURVED), Entry("straight", MIN_STRAIGHT) >>,
      << Entry("straight", MIN_STRAIGHT), Entry("curved", MIN_CURVED), Entry("straight", 1) >> }

Inventories ==
    UNION { [1..n -> [type : InventoryTypes, count : InventoryCounts]] : n \in 0..MaxInv }
        \cup RepeatedInventories

\* LayoutGenerator.__init__ (lines 109-114), in thousandths
LayoutGeneratorFields ==
    [STRAIGHT_LENGTH |-> STRAIGHT_LENGTH, CURVE_RADIUS |-> 40000, CURVE_ANGLE |-> ANGLE,
     TRACK_WIDTH |-> 8000, PARALLEL_SPACING |-> 8000]

Requests == 1..MaxRequests

ValidateCall(posted) == [kind |-> "validate", layout |-> posted, available_pieces |-> <<>>]

GenerateCall(available_pieces) ==
    [kind |-> "generate", layout |-> EmptyLayout, available_pieces |-> available_pieces]

\* the calls that run side by side: both endpoints, with arguments that
\* reach each of their returns
ConcurrentCalls ==
    { ValidateCall(SampleLayout),
      ValidateCall(EmptyLayout),
      ValidateCall([connections |-> <<>>]),
      ValidateCall([SampleLayout EXCEPT !.pieces[2] = [type |-> "curved", rotation |-> ANGLE]]),
      GenerateCall(<< [type |-> "curved", count |-> MIN_CURVED],
                      [type |-> "straight", count |-> MIN_STRAIGHT] >>),
      GenerateCall(<< [type |-> "curved", count |-> 1] >>) }

\* the requests c, none of them started
ConcInit(c) ==
    /\ calls = c
    /\ pc = [r \in Requests |-> "start"]
    /\ lists = [r \in Requests |-> <<>>]
    /\ cursor = [r \in Requests |-> 0]
    /\ receiver = [r \in Requests |-> None]
    /\ returned = [r \in Requests |-> NoResponse]
    /\ overlap = [r \in Requests |-> FALSE]
    /\ generator = LayoutGeneratorFields

(***************************************************************************)
(* Line 93 in floating point.  On whole thousandths of a degree the float  *)
(* arithmetic of (self.angle + rotation) % 360 is the integer arithmetic   *)
(* of TransformedAngle.  A float can also lie between two thousandths: a   *)
(* Float is a number of thousandths (milli) plus tiny times 1e-15, tiny in *)
(* -1..1.  1e-15 is less than half the gap between neighbouring doubles    *)
(* from 16 upwards (the gap is 2^-48 in [16, 32) and 2^-45 in [256, 512)), *)
(* so a sum of that size or more is rounded to the double without it.      *)
(***************************************************************************)
Float(milli, tiny) == [milli |-> milli, tiny |-> tiny]

\* the least magnitude, in thousandths, at which adding 1e-15 is rounded away
ROUNDS_AWAY_FROM == 16000

\* self.angle + rotation, rounded to the nearest double
FloatAdd(angle, rotation) ==
    LET milli == angle + rotation.milli
    IN  IF Abs(milli) >= ROUNDS_AWAY_FROM THEN Float(milli, 0)
        ELSE Float(milli, rotation.tiny)

\* x % 360 of Python floats: r = fmod(x, 360) has the sign of x; when r is
\* negative the result is r + 360, rounded to the nearest double, which for
\* r = -1e-15 is 360.0
FloatMod(x) ==
    IF x.milli % FULL_TURN = 0 /\ x.tiny < 0
    THEN Float(FULL_TURN, 0)
    ELSE Float(x.milli % FULL_TURN, x.tiny)

\* the angle of the geometry transform returns (line 93), on floats
FloatTransformedAngle(angle, rotation) == FloatMod(FloatAdd(angle, rotation))

\* rotations a caller may pass: every multiple of 22.5 degrees within
\* MaxTurns full turns either way, and 1e-15 either way
FloatRotations ==
    { Float(ANGLE * k, 0) : k \in (-16 * MaxTurns)..(16 * MaxTurns) }
        \cup { Float(0, -1), Float(0, 1) }

TurnInit == turned = None

\* no request made yet
ServiceInit ==
    /\ pieces = <<>>
    /\ made = <<>>
    /\ op = "new"
    /\ tolerance = 0
    /\ verdict = NoVerdict
    /\ layout = None
    /\ rebuilt = <<>>
    /\ response = NoResponse
    /\ inventory = <<>>

\* an expander given the piece list t, before its first piece
DrawInit(t) ==
    /\ track = t
    /\ drawn = 0
    /\ paths = InitialPaths
    /\ was = InitialPaths
    /\ laid = 0
    /\ paths2 = InitialPaths
    /\ was2 = InitialPaths

Init ==
    /\ ServiceInit
    /\ DrawInit(<<>>)
    /\ ConcInit([r \in Requests |-> ValidateCall(EmptyLayout)])
    /\ TurnInit

Results(o, tol, v, l, g, r, inv) ==
    /\ op' = o
    /\ tolerance' = tol
    /\ verdict' = v
    /\ layout' = l
    /\ rebuilt' = g
    /\ response' = r
    /\ inventory' = inv
    /\ UNCHANGED drawVars
    /\ UNCHANGED concVars
    /\ UNCHANGED floatVars

\* the caller places a canonical piece at the end of its list:
\* TrackGeometry.from_...().transform(current_pos, rotation)
Place(kind, rotation) ==
    /\ Len(pieces) < MaxLen
    /\ pieces' = Append(pieces, transform(Canonical(kind), CurrentPos, rotation))
    /\ made' = Append(made, Placed(kind, rotation))
    /\ Results("build", 0, NoVerdict, None, <<>>, NoResponse, <<>>)

\* the caller appends a geometry it constructed directly,
\* TrackGeometry(start, end, angle): it starts at the end of the list or gap
\* away from it, and ends at the origin
AppendGeometry(gap, heading) ==
    /\ Len(pieces) < MaxLen
    /\ pieces' = Append(pieces,
                        TrackGeometry(Point(CurrentPos.x + gap, CurrentPos.y), Origin, heading))
    /\ made' = Append(made, Placed("raw", 0))
    /\ Results("build", 0, NoVerdict, None, <<>>, NoResponse, <<>>)

\* the caller takes the list of generate_oval()
GenerateOval ==
    /\ op = "new"
    /\ pieces' = generate_oval
    /\ made' = OvalRun.how
    /\ Results("build", 0, NoVerdict, None, <<>>, NoResponse, <<>>)

\* layout_generator.validate_layout(pieces, tol)
Validate(tol) ==
    /\ op \in {"new", "build"}
    /\ Results("validate", tol, validate_layout(pieces, tol), None, <<>>, NoResponse, <<>>)
    /\ UNCHANGED <<pieces, made>>

\* layout_generator.convert_to_layout(pieces)
Convert ==
    /\ op \in {"new", "build"}
    /\ Results("convert", DEFAULT_TOLERANCE, NoVerdict, convert_to_layout(pieces),
               <<>>, NoResponse, <<>>)
    /\ UNCHANGED <<pieces, made>>

\* POST /api/validate-layout with the layout convert_to_layout or
\* generate_layouts returned, unchanged
PostBack ==
    /\ op \in {"convert", "generate"}
    /\ ~IsNone(layout)
    /\ LET r == validate_layout_endpoint(layout)
       IN  Results("postback", DEFAULT_TOLERANCE, NoVerdict, layout,
                   r.geometric_pieces, r, inventory)
    /\ UNCHANGED <<pieces, made>>

\* POST /api/validate-layout with a layout of the client's own
PostLayout(posted) ==
    /\ op = "new"
    /\ LET r == validate_layout_endpoint(posted)
       IN  Results("post", DEFAULT_TOLERANCE, NoVerdict, posted, r.geometric_pieces, r, <<>>)
    /\ pieces' = <<>>
    /\ made' = <<>>

\* POST /api/generate-layouts; pieces is the list generate_oval built, if it
\* was called
GenerateLayouts(available_pieces) ==
    /\ op = "new"
    /\ LET r == generate_layouts_endpoint(available_pieces)
       IN  Results("generate", DEFAULT_TOLERANCE, NoVerdict,
                   IF r.layouts = <<>> THEN None ELSE r.layouts[1],
                   <<>>, r, available_pieces)
    /\ pieces' = IF InventorySuffices(available_pieces) THEN generate_oval ELSE <<>>
    /\ made' = IF InventorySuffices(available_pieces) THEN OvalRun.how ELSE <<>>

\* the caller drops what it holds and starts over
NewRequest ==
    /\ op # "new"
    /\ pieces' = <<>>
    /\ made' = <<>>
    /\ Results("new", 0, NoVerdict, None, <<>>, NoResponse, <<>>)

Next ==
    \/ \E kind \in Kinds, rotation \in Rotations : Place(kind, rotation)
    \/ \E gap \in Gaps, heading \in Headings : AppendGeometry(gap, heading)
    \/ GenerateOval
    \/ \E tol \in Tolerances : Validate(tol)
    \/ Convert
    \/ PostBack
    \/ \E posted \in PostedLayouts : PostLayout(posted)
    \/ \E available_pieces \in Inventories : GenerateLayouts(available_pieces)
    \/ NewRequest

Spec == Init /\ [][Next]_vars

(***************************************************************************)
(* Properties.                                                             *)
(***************************************************************************)
Min(S) == CHOOSE m \in S : \A n \in S : m <= n

\* the distance between two headings on the circle, in thousandths of a degree
CircularDistance(a, b) == Min({ Abs(a - b + k * FULL_TURN) : k \in -2..2 })

Last(ps) == ps[Len(ps)]

\* C1: the list generate_oval returns, validated with tolerance 0.1, is
\* reported valid.
C1_OvalIsValid ==
    (op = "validate" /\ tolerance = 100 /\ pieces = generate_oval) => verdict.valid

\* an inventory that names the type with a count of at least n, and with no
\* smaller count
Offers(inv, type, n) ==
    /\ \E i \in 1..Len(inv) : inv[i].type = type
    /\ \A i \in 1..Len(inv) : inv[i].type = type => inv[i].count >= n

\* an inventory in which the type is absent or has only counts below n
Lacks(inv, type, n) == \A i \in 1..Len(inv) : inv[i].type = type => inv[i].count < n

\* C2: with at least 16 curved and 2 straight pieces in the inventory,
\* generate_layouts returns exactly one layout.
C2_SufficientInventoryOneLayout ==
    (op = "generate" /\ Offers(inventory, "curved", 16) /\ Offers(inventory, "straight", 2))
        => (Len(response.layouts) = 1 /\ response.count = 1)

\* C3: with fewer than 16 curved or fewer than 2 straight pieces (a missing
\* type counts as 0), generate_layouts returns the empty list, and neither
\* builds the oval nor serializes a layout.
C3_InsufficientInventoryNoLayout ==
    (op = "generate" /\ (Lacks(inventory, "curved", 16) \/ Lacks(inventory, "straight", 2)))
        => /\ response.layouts = <<>>
           /\ response.count = 0
           /\ pieces = <<>>
           /\ IsNone(layout)

C3_Witness ==
    /\ op = "generate"
    /\ inventory = << [type |-> "curved", count |-> 15], [type |-> "straight", count |-> 2] >>
    /\ response.layouts = <<>>
    /\ pieces = <<>>

\* the heading at the end of the i-th piece of a list of placed pieces
EndHeading(how) == how.rotation + Canonical(how.kind).angle

\* every piece was placed by transform at the previous piece's end position
\* and end heading
Chained(ps, how) ==
    /\ Len(ps) = Len(how)
    /\ \A i \in 1..Len(ps) :
        /\ how[i].kind \in Kinds
        /\ ps[i] = transform(Canonical(how[i].kind),
                             IF i = 1 THEN ps[1].start ELSE ps[i - 1].end,
                             how[i].rotation)
        /\ i > 1 => how[i].rotation = EndHeading(how[i - 1])

\* the last piece's end pose is the first piece's start pose, modulo 360
Closes(ps, how, tol) ==
    /\ ~DistanceExceeds(Last(ps).end, ps[1].start, tol)
    /\ CircularDistance(EndHeading(Last(how)), how[1].rotation) = 0

\* C4: validate_layout accepts every non-empty chained sequence that closes.
C4_ChainedLoopAccepted ==
    (/\ op = "validate"
     /\ pieces # <<>>
     /\ Chained(pieces, made)
     /\ Closes(pieces, made, tolerance))
        => verdict.valid

\* C5: a list whose last end meets the first start but whose last and first
\* headings differ by more than the tolerance is reported invalid.
C5_ClosureChecksHeading ==
    (/\ op = "validate"
     /\ pieces # <<>>
     /\ ~DistanceExceeds(Last(pieces).end, pieces[1].start, tolerance)
     /\ CircularDistance(Last(pieces).angle, pieces[1].angle) > tolerance)
        => ~verdict.valid

\* the joints 0 .. n-1 the validator found good before it stopped
JointsPassed ==
    IF verdict.kind \in {"PositionGap", "HeadingMismatch"}
    THEN 0..(verdict.first - 1)
    ELSE 0..(Len(pieces) - 2)

\* C6: a joint passes the heading check exactly when the circular distance
\* of the two headings is within the tolerance, whatever multiple of 360 or
\* sign the headings carry.
C6_HeadingModular ==
    op = "validate" =>
        /\ \A i \in JointsPassed :
              CircularDistance(At(pieces, i).angle, At(pieces, i + 1).angle) <= tolerance
        /\ verdict.kind = "HeadingMismatch" =>
              CircularDistance(At(pieces, verdict.first).angle,
                               At(pieces, verdict.second).angle) > tolerance

C6_Witness ==
    /\ op = "validate"
    /\ tolerance = 5000
    /\ Len(pieces) = 2
    /\ pieces[1].angle = 359000
    /\ pieces[2].angle = 1000
    /\ verdict.valid

\* joint i of the list fails a check
GapAt(i) == DistanceExceeds(At(pieces, i).end, At(pieces, i + 1).start, tolerance)

MisalignedAt(i) ==
    CircularDistance(At(pieces, i).angle, At(pieces, i + 1).angle) > tolerance

FailingJoints == { i \in 0..(Len(pieces) - 2) : GapAt(i) \/ MisalignedAt(i) }

C8_EmptyIsInvalid ==
    /\ (op = "validate" /\ pieces = <<>>) => (~verdict.valid /\ verdict.kind = "Empty")
    /\ (op = "post" /\ layout = EmptyLayout) =>
          (response.status = HTTP_OK /\ response.called /\ ~response.valid)

C8_Witness ==
    /\ op = "post"
    /\ layout = EmptyLayout
    /\ response.status = HTTP_OK
    /\ ~response.valid

\* C9: a layout posted back unchanged is rebuilt with every placed piece's
\* start, end and angle as they were.
C9_RoundTrip ==
    op = "postback" =>
        \A i \in 1..Len(pieces) :
            made[i].kind \in Kinds =>
                (i <= Len(rebuilt) /\ rebuilt[i] = pieces[i])

\* C10: a serialized piece carries the type and id of the kind it was made
\* from, and as rotation the heading at its start.
C10_RecordedKind ==
    (op = "convert" /\ ~IsNone(layout)) =>
        \A i \in 1..Len(pieces) :
            made[i].kind \in Kinds =>
                /\ layout.pieces[i].type = made[i].kind
                /\ layout.pieces[i].id =
                       << IF made[i].kind = "curved" THEN "curve" ELSE "straight", i - 1 >>
                /\ CircularDistance(layout.pieces[i].rotation, made[i].rotation) = 0


\* the ids of the records of a layout
LayoutIds(l) == { l.pieces[i].id : i \in 1..Len(l.pieces) }

\* C11: a serialized list of n >= 1 pieces has exactly n connections: piece
\* i-1 ('right') to piece i ('left') for i = 1 .. n-1 in order, then piece
\* n-1 to piece 0; every id a connection names is the id of a piece record.
C11_ConnectionsChainAndClose ==
    (op = "convert" /\ ~IsNone(layout)) =>
        LET n == Len(pieces)
            c == layout.connections
        IN  /\ n >= 1
            /\ Len(layout.pieces) = n
            /\ Len(c) = n
            /\ \A i \in 1..(n - 1) :
                  /\ c[i].piece1_id = layout.pieces[i].id
                  /\ c[i].piece2_id = layout.pieces[i + 1].id
            /\ c[n].piece1_id = layout.pieces[n].id
            /\ c[n].piece2_id = layout.pieces[1].id
            /\ \A i \in 1..n :
                  /\ c[i].point1 = "right"
                  /\ c[i].point2 = "left"
                  /\ {c[i].piece1_id, c[i].piece2_id} \subseteq LayoutIds(layout)

C11_Witness ==
    /\ op = "convert"
    /\ ~IsNone(layout)
    /\ Len(pieces) = 3
    /\ Len(layout.connections) = 3


(***************************************************************************)
(* The path expanders as a state machine: a piece list is given, and each  *)
(* expander processes it piece by piece (one iteration of its outer loop   *)
(* per step).                                                              *)
(***************************************************************************)
TrackPieces ==
    { TrackPiece("straight", "right"),
      TrackPiece("curve", "left"), TrackPiece("curve", "right"),
      TrackPiece("switch", "left"), TrackPiece("switch", "right"),
      TrackPiece("crossing", "right"), TrackPiece("curve", "up") }

Tracks == UNION { [1..n -> TrackPieces] : n \in 0..MaxPieces }

InitDraw ==
    /\ ServiceInit
    /\ \E t \in Tracks : DrawInit(t)
    /\ ConcInit([r \in Requests |-> ValidateCall(EmptyLayout)])
    /\ TurnInit

\* one iteration of "for piece in pieces" of draw_track_sequence
DrawTrackSequenceStep ==
    /\ drawn < Len(track)
    /\ paths' = DrawPiece(paths, track[drawn + 1], Len(paths))
    /\ was' = paths
    /\ drawn' = drawn + 1
    /\ UNCHANGED <<track, laid, paths2, was2>>
    /\ UNCHANGED serviceVars
    /\ UNCHANGED concVars
    /\ UNCHANGED floatVars

\* one iteration of "for piece in pieces" of create_track_layout
CreateTrackLayoutStep ==
    /\ laid < Len(track)
    /\ paths2' = LayoutPieceStep(paths2, track[laid + 1], Len(paths2))
    /\ was2' = paths2
    /\ laid' = laid + 1
    /\ UNCHANGED <<track, drawn, paths, was>>
    /\ UNCHANGED serviceVars
    /\ UNCHANGED concVars
    /\ UNCHANGED floatVars

NextDraw ==
    \/ DrawTrackSequenceStep
    \/ CreateTrackLayoutStep

SpecDraw == InitDraw /\ [][NextDraw]_vars


\* the number of switch pieces among the first k pieces of the track
Switches(k) == Cardinality({ i \in 1..k : track[i].type = "switch" })

\* C12: the live list starts as the initial pose alone and, after any prefix
\* of the pieces, holds 2^k poses, k the number of switches in the prefix.
C12_LiveListSize ==
    /\ Len(paths) = 2 ^ Switches(drawn)
    /\ Len(paths2) = 2 ^ Switches(laid)
    /\ drawn = 0 => paths = << <<0, 0, 0>> >>
    /\ laid = 0 => paths2 = << <<0, 0, 0>> >>

C12_Witness ==
    /\ Len(track) = 3
    /\ drawn = 3
    /\ laid = 3
    /\ Switches(3) = 2
    /\ track[3].type = "straight"
    /\ Len(paths) = 4
    /\ Len(paths2) = 4

\* the two continuations of a pose through a switch, per expander
StraightOf(pose, piece) ==
    LET s == create_switch_segment(pose[1], pose[2], pose[3], piece.direction)
    IN  <<s[1], s[2], s[3]>>

DivergingOf(pose, piece) ==
    LET s == create_switch_segment(pose[1], pose[2], pose[3], piece.direction)
    IN  <<s[4], s[5], s[6]>>

StraightOf2(pose, piece) ==
    LET s == add_switch_segment(pose[1], pose[2], pose[3], piece.direction)
    IN  <<s[1], s[2], s[3]>>

DivergingOf2(pose, piece) ==
    LET s == add_switch_segment(pose[1], pose[2], pose[3], piece.direction)
    IN  <<s[4], s[5], s[6]>>

\* the live list after a piece, against the list before it: a switch puts the
\* straight continuation of position p at 2p and the diverging one at 2p+1
\* (positions counted from 0); another piece keeps every pose at its position
PreOrder(before, after, piece, straight(_, _), diverging(_, _), single(_, _)) ==
    IF piece.type = "switch"
    THEN /\ Len(after) = 2 * Len(before)
         /\ \A p \in 0..(Len(before) - 1) :
               /\ At(after, 2 * p) = straight(At(before, p), piece)
               /\ At(after, 2 * p + 1) = diverging(At(before, p), piece)
    ELSE /\ Len(after) = Len(before)
         /\ \A p \in 0..(Len(before) - 1) :
               At(after, p) = single(At(before, p), piece)

SingleOf(pose, piece) == DrawFrom(pose, piece)[1]

SingleOf2(pose, piece) == LayoutFrom(pose, piece)[1]

\* C13: the live list is in pre-order branch order after every step; after
\* two switches it reads straight-straight, straight-diverging,
\* diverging-straight, diverging-diverging.
C13_PreOrder ==
    /\ drawn > 0 => PreOrder(was, paths, track[drawn], StraightOf, DivergingOf, SingleOf)
    /\ laid > 0 => PreOrder(was2, paths2, track[laid], StraightOf2, DivergingOf2, SingleOf2)
    /\ (drawn = 2 /\ track[1].type = "switch" /\ track[2].type = "switch") =>
          LET s == StraightOf(<<0, 0, 0>>, track[1])
              d == DivergingOf(<<0, 0, 0>>, track[1])
          IN  paths = << StraightOf(s, track[2]), DivergingOf(s, track[2]),
                         StraightOf(d, track[2]), DivergingOf(d, track[2]) >>
    /\ (laid = 2 /\ track[1].type = "switch" /\ track[2].type = "switch") =>
          LET s == StraightOf2(<<0, 0, 0>>, track[1])
              d == DivergingOf2(<<0, 0, 0>>, track[1])
          IN  paths2 = << StraightOf2(s, track[2]), DivergingOf2(s, track[2]),
                          StraightOf2(d, track[2]), DivergingOf2(d, track[2]) >>

C13_Witness ==
    /\ drawn = 2
    /\ laid = 2
    /\ track[1] = TrackPiece("switch", "right")
    /\ track[2] = TrackPiece("switch", "left")
    /\ Len(paths) = 4
    /\ paths[2][3] = -22500
    /\ paths[3][3] = 22500
    /\ paths2[4][3] = 0

\* the signed divergence of a direction
Divergence(direction) == IF direction = "right" THEN 22500 ELSE -22500

\* a switch placed on the live list "before" gave the list "after": two
\* poses for each incoming pose, the straight one with the incoming heading
\* and switch_length further along it, the diverging one turned by 22.5
FanOut(before, after, direction, switch_length) ==
    /\ Len(after) = 2 * Len(before)
    /\ \A p \in 0..(Len(before) - 1) :
          LET incoming == At(before, p)
              straight == At(after, 2 * p)
              diverging == At(after, 2 * p + 1)
          IN  /\ straight[3] = incoming[3]
              /\ straight[1] = incoming[1] + Scaled(switch_length * CosOf(incoming[3]))
              /\ straight[2] = incoming[2] + Scaled(switch_length * SinOf(incoming[3]))
              /\ diverging[3] = incoming[3] + Divergence(direction)

KnownDirections == {"left", "right"}

\* C14: for every incoming pose and direction a switch yields exactly two
\* poses from that pose; the straight one keeps the heading, the diverging one
\* has it + 22.5 (right) or - 22.5 (left).
C14_SwitchFanOut ==
    /\ (drawn > 0 /\ track[drawn].type = "switch"
           /\ track[drawn].direction \in KnownDirections)
          => FanOut(was, paths, track[drawn].direction, 32000)
    /\ (laid > 0 /\ track[laid].type = "switch"
           /\ track[laid].direction \in KnownDirections)
          => FanOut(was2, paths2, track[laid].direction, 32000)

C14_Witness ==
    /\ drawn = 3
    /\ laid = 3
    /\ track[3] = TrackPiece("switch", "left")
    /\ was[1][3] = 45000
    /\ paths[1][3] = 45000
    /\ paths[2][3] = 22500
    /\ paths2[2][3] = 22500

\* the first k pieces are straights and left or right curves
SwitchFree(k) ==
    \A i \in 1..k : track[i] \in { TrackPiece("straight", "right"),
                                   TrackPiece("curve", "left"),
                                   TrackPiece("curve", "right") }

Curves(k, direction) ==
    Cardinality({ i \in 1..k : track[i] = TrackPiece("curve", direction) })

\* C15: along a switch-free sequence the heading is the initial heading plus
\* 22.5 for each right curve and minus 22.5 for each left curve, whatever
\* the order of the pieces.
C15_HeadingFold ==
    /\ SwitchFree(drawn) =>
          (Len(paths) = 1
           /\ paths[1][3] = 22500 * (Curves(drawn, "right") - Curves(drawn, "left")))
    /\ SwitchFree(laid) =>
          (Len(paths2) = 1
           /\ paths2[1][3] = 22500 * (Curves(laid, "right") - Curves(laid, "left")))

C15_Witness ==
    /\ drawn = 3
    /\ laid = 3
    /\ track = << TrackPiece("curve", "left"), TrackPiece("curve", "right"),
                  TrackPiece("curve", "left") >>
    /\ paths[1][3] = -22500
    /\ paths2[1][3] = -22500


\* the keys the endpoint reads of a piece record
PieceKeys == {"type", "position", "rotation"}

\* the piece types the endpoint's callers and the expanders know
KnownTypes == {"straight", "curved", "curve", "switch"}

\* C16: a piece whose kind is not a known one is refused with an error, never
\* placed as some other piece; here, at the validate-layout endpoint, posting
\* a complete layout with such a piece gives HTTP 400.
C16_UnknownPieceRejected ==
    (/\ op = "post"
     /\ {"pieces", "connections"} \subseteq DOMAIN layout
     /\ \A i \in 1..Len(layout.pieces) : PieceKeys \subseteq DOMAIN layout.pieces[i]
     /\ \E i \in 1..Len(layout.pieces) : layout.pieces[i].type \notin KnownTypes)
        => response.status = HTTP_BAD_REQUEST

\* the posted layout lacks a key the endpoint reads
Malformed(posted) ==
    \/ ~({"pieces", "connections"} \subseteq DOMAIN posted)
    \/ \E i \in 1..Len(posted.pieces) : ~(PieceKeys \subseteq DOMAIN posted.pieces[i])

\* C17: a posted layout that lacks pieces or connections, or has a piece
\* lacking type, position or rotation, gets HTTP 400; the validator is not
\* called and the response carries no verdict.
C17_MalformedRejected ==
    (op = "post" /\ Malformed(layout)) =>
        /\ response.status = HTTP_BAD_REQUEST
        /\ ~response.called
        /\ "valid" \notin DOMAIN response

C17_Witness ==
    /\ op = "post"
    /\ "pieces" \in DOMAIN layout
    /\ Len(layout.pieces) = 2
    /\ PieceKeys \subseteq DOMAIN layout.pieces[1]
    /\ "position" \notin DOMAIN layout.pieces[2]
    /\ response.status = HTTP_BAD_REQUEST
    /\ ~response.called


\* the list held is the one generate_oval returned
HoldsOval == pieces # <<>> /\ pieces = generate_oval

\* C19: generate_oval returns 18 pieces, 8 curves, a straight, 8 curves, a
\* straight; the rotation fed to transform is 22.5 * k for curve k of the
\* first arc, 180 for the first straight, 180 + 22.5 * k in the second arc
\* and 360 for the closing straight.
C19_OvalRecipe ==
    HoldsOval =>
        /\ Len(pieces) = 18
        /\ Len(made) = 18
        /\ \A k \in 0..7 :
              /\ At(made, k) = Placed("curved", 22500 * k)
              /\ At(made, 9 + k) = Placed("curved", 180000 + 22500 * k)
              /\ At(pieces, k) = transform(from_curve, At(pieces, k).start, 22500 * k)
        /\ At(made, 8) = Placed("straight", 180000)
        /\ At(made, 17) = Placed("straight", 360000)
        /\ At(pieces, 8).angle = 180000
        /\ At(pieces, 17).angle = 0

C19_Witness ==
    /\ op = "build"
    /\ HoldsOval
    /\ Len(pieces) = 18
    /\ At(made, 7) = Placed("curved", 157500)
    /\ At(made, 17) = Placed("straight", 360000)

\* C20: in the oval every piece starts where the previous one ends and the
\* last piece ends at the first piece's start (0, 0) within 0.1, so the
\* validator reports no position gap and no closure gap on it.
C20_OvalPositionsChain ==
    HoldsOval =>
        /\ \A i \in 0..(Len(pieces) - 2) : At(pieces, i + 1).start = At(pieces, i).end
        /\ At(pieces, 0).start = Origin
        /\ ~DistanceExceeds(Last(pieces).end, At(pieces, 0).start, DEFAULT_TOLERANCE)
        /\ op = "validate" => verdict.kind \notin {"PositionGap", "Closure"}

C20_Witness ==
    /\ op = "validate"
    /\ tolerance = DEFAULT_TOLERANCE
    /\ HoldsOval
    /\ Len(pieces) = 18
    /\ At(pieces, 9).start = At(pieces, 8).end
    /\ verdict.kind = "HeadingMismatch"


(***************************************************************************)
(* Concurrent requests.  The handlers are split into the steps between     *)
(* which another request may run: entry, each iteration of the rebuild     *)
(* loop, the call of the validator; for generate_layouts the gate, the     *)
(* oval and the rest.  Every name of a handler is a local of its call;     *)
(* the only shared object is layout_generator.                             *)
(***************************************************************************)
\* a module-level list that every call appends to
ListOfShared(r) == 1

\* the list the local geometric_pieces of call r is bound to (main.py line
\* 290, line 254): a list of its own
ListOf(r) == r

InFlight(r) == pc[r] \notin {"start", "done"}

\* call r moves to position p; the generator is only read
Steps(r, p) ==
    /\ pc' = [pc EXCEPT ![r] = p]
    /\ overlap' = [overlap EXCEPT ![r] = @ \/ \E q \in Requests \ {r} : InFlight(q)]
    /\ UNCHANGED <<calls, generator>>
    /\ UNCHANGED serviceVars
    /\ UNCHANGED drawVars
    /\ UNCHANGED floatVars

Returns(r, value) ==
    /\ returned' = [returned EXCEPT ![r] = value]
    /\ Steps(r, "done")

\* lines 285-290: the keys are read, geometric_pieces = []
ValidateBegin(r) ==
    /\ pc[r] = "start"
    /\ calls[r].kind = "validate"
    /\ IF {"pieces", "connections"} \subseteq DOMAIN calls[r].layout
       THEN /\ lists' = [lists EXCEPT ![ListOf(r)] = <<>>]
            /\ cursor' = [cursor EXCEPT ![r] = 0]
            /\ Steps(r, "loop")
            /\ UNCHANGED <<receiver, returned>>
       ELSE /\ Returns(r, BadRequest)
            /\ UNCHANGED <<lists, cursor, receiver>>

\* lines 291-300: one iteration of the loop
ValidateRebuildPiece(r) ==
    /\ pc[r] = "loop"
    /\ cursor[r] < Len(calls[r].layout.pieces)
    /\ LET piece == calls[r].layout.pieces[cursor[r] + 1]
       IN  IF {"type", "position", "rotation"} \subseteq DOMAIN piece
           THEN LET geom == CanonicalOf(piece.type)
                    pos == Point(piece.position[1], piece.position[2])
                IN  /\ lists' = [lists EXCEPT ![ListOf(r)] =
                                    Append(@, transform(geom, pos, piece.rotation))]
                    /\ receiver' = [receiver EXCEPT ![r] = geom]
                    /\ cursor' = [cursor EXCEPT ![r] = @ + 1]
                    /\ Steps(r, "loop")
                    /\ UNCHANGED returned
           ELSE /\ Returns(r, BadRequest)
                /\ UNCHANGED <<lists, cursor, receiver>>

\* lines 302-313: the validator is called on the list and the verdict returned
ValidateRespond(r) ==
    /\ pc[r] = "loop"
    /\ cursor[r] = Len(calls[r].layout.pieces)
    /\ LET geometric_pieces == lists[ListOf(r)]
       IN  Returns(r, [status |-> HTTP_OK,
                       valid |-> validate_layout(geometric_pieces, DEFAULT_TOLERANCE).valid,
                       called |-> TRUE,
                       geometric_pieces |-> geometric_pieces])
    /\ UNCHANGED <<lists, cursor, receiver>>

NoLayouts == [status |-> HTTP_OK, success |-> TRUE, layouts |-> <<>>, count |-> 0]

\* lines 245-252: the counts and the gate
GenerateBegin(r) ==
    /\ pc[r] = "start"
    /\ calls[r].kind = "generate"
    /\ IF InventorySuffices(calls[r].available_pieces)
       THEN Steps(r, "oval") /\ UNCHANGED returned
       ELSE Returns(r, NoLayouts)
    /\ UNCHANGED <<lists, cursor, receiver>>

\* line 254: geometric_pieces = self.generate_oval()
GenerateBuildOval(r) ==
    /\ pc[r] = "oval"
    /\ lists' = [lists EXCEPT ![ListOf(r)] = generate_oval]
    /\ receiver' = [receiver EXCEPT ![r] = from_straight]
    /\ Steps(r, "check")
    /\ UNCHANGED <<cursor, returned>>

\* lines 257-265 and 274-278
GenerateFinish(r) ==
    /\ pc[r] = "check"
    /\ LET geometric_pieces == lists[ListOf(r)]
           result == IF validate_layout(geometric_pieces, DEFAULT_TOLERANCE).valid
                     THEN convert_to_layout(geometric_pieces)
                     ELSE None
           layouts == IF IsNone(result) THEN <<>> ELSE <<result>>
       IN  Returns(r, [status |-> HTTP_OK, success |-> TRUE,
                       layouts |-> layouts, count |-> Len(layouts)])
    /\ UNCHANGED <<lists, cursor, receiver>>

InitConcurrent ==
    /\ ServiceInit
    /\ DrawInit(<<>>)
    /\ \E c \in [Requests -> ConcurrentCalls] : ConcInit(c)
    /\ TurnInit

NextConcurrent ==
    \E r \in Requests :
        \/ ValidateBegin(r)
        \/ ValidateRebuildPiece(r)
        \/ ValidateRespond(r)
        \/ GenerateBegin(r)
        \/ GenerateBuildOval(r)
        \/ GenerateFinish(r)

SpecConcurrent == InitConcurrent /\ [][NextConcurrent]_vars

\* what the call returns when no other request runs
RunAlone(call) ==
    IF call.kind = "validate"
    THEN validate_layout_endpoint(call.layout)
    ELSE generate_layouts_endpoint(call.available_pieces)

\* C18: in every interleaving of generate-layouts and validate-layout
\* requests each request returns what it returns alone, works on the pieces
\* of its own layout only, and leaves the generator's fields and the piece
\* transform was called on as they were.
C18_NoCrossCallState ==
    /\ generator = LayoutGeneratorFields
    /\ \A r \in Requests :
          /\ pc[r] = "done" => returned[r] = RunAlone(calls[r])
          /\ pc[r] = "loop" =>
                lists[ListOf(r)] = Rebuild(calls[r].layout.pieces, cursor[r]).geometric_pieces
          /\ pc[r] = "check" => lists[ListOf(r)] = generate_oval
          /\ receiver[r] \in {None, from_curve, from_straight}

C18_Witness ==
    /\ \A r \in Requests : pc[r] = "done" /\ overlap[r]
    /\ calls[1].kind = "validate"
    /\ returned[1].status = HTTP_OK
    /\ Len(returned[1].geometric_pieces) = 2
    /\ calls[2].kind = "generate"
    /\ InventorySuffices(calls[2].available_pieces)


(***************************************************************************)
(* TrackGeometry.transform on the two canonical pieces, with rotations     *)
(* given as floats.                                                        *)
(***************************************************************************)
InitTransform ==
    /\ ServiceInit
    /\ DrawInit(<<>>)
    /\ ConcInit([r \in Requests |-> ValidateCall(EmptyLayout)])
    /\ TurnInit

\* TrackGeometry.from_...().transform(position, rotation): the angle
TransformCanonical(kind, rotation) ==
    /\ turned' = [kind |-> kind, rotation |-> rotation,
                  angle |-> FloatTransformedAngle(Canonical(kind).angle, rotation)]
    /\ UNCHANGED serviceVars
    /\ UNCHANGED drawVars
    /\ UNCHANGED concVars

NextTransform ==
    \E kind \in Kinds, rotation \in FloatRotations : TransformCanonical(kind, rotation)

SpecTransform == InitTransform /\ [][NextTransform]_vars

\* 0 <= x < 360
InHalfOpenTurn(x) ==
    /\ 0 <= x.milli
    /\ x.milli < FULL_TURN
    /\ x.milli = 0 => x.tiny >= 0

\* C21: the geometry transform returns has its angle in [0, 360), whatever
\* the rotation, negative rotations and rotations of 360 or more included.
C21_AngleNormalized ==
    ~IsNone(turned) => InHalfOpenTurn(turned.angle)

\* on whole thousandths the float angle is the angle of TransformedAngle
GridAngleAgrees ==
    (~IsNone(turned) /\ turned.rotation.tiny = 0) =>
        turned.angle = Float(TransformedAngle(Canonical(turned.kind).angle,
                                              turned.rotation.milli), 0)


\* the headings of a live list, in list order
HeadingsOf(live) == [p \in 1..Len(live) |-> live[p][3]]

\* C22: the two expanders agree on branching and headings: after the same
\* number of pieces of the same sequence they hold the same number of live
\* poses, and the poses at each list position have the same heading.
C22_ExpandersAgree ==
    drawn = laid =>
        /\ Len(paths) = Len(paths2)
        /\ HeadingsOf(paths) = HeadingsOf(paths2)

C22_Witness ==
    /\ drawn = 3
    /\ laid = 3
    /\ track = << TrackPiece("switch", "right"), TrackPiece("curve", "left"),
                  TrackPiece("switch", "left") >>
    /\ HeadingsOf(paths) = <<-22500, -45000, 0, -22500>>
    /\ HeadingsOf(paths2) = <<-22500, -45000, 0, -22500>>
    /\ paths # paths2


\* the count of the last entry of the inventory that names the type, 0 when
\* none does
LastCount(inv, type) ==
    LET named == { i \in 1..Len(inv) : inv[i].type = type }
    IN  IF named = {} THEN 0
        ELSE inv[CHOOSE i \in named : \A j \in named : j <= i].count

\* C23: generate_layouts decides on the count of the last entry of each
\* type (earlier entries of the type are overwritten, not added), and
\* returns at most one layout.
C23_LastEntryDecides ==
    op = "generate" =>
        /\ (pieces # <<>>) <=> (/\ LastCount(inventory, "curved") >= 16
                                /\ LastCount(inventory, "straight") >= 2)
        /\ Len(response.layouts) <= 1
        /\ response.count = Len(response.layouts)

C23_Witness ==
    /\ op = "generate"
    /\ inventory = << Entry("curved", 8), Entry("curved", 8), Entry("straight", 2) >>
    /\ pieces = <<>>
    /\ response.layouts = <<>>

\* the last entry decides in favour as well: 1 then 16 curved pieces pass
\* the gate and the oval is built
LastEntryPasses ==
    /\ op = "generate"
    /\ inventory = << Entry("curved", 1), Entry("curved", 16), Entry("straight", 2) >>
    /\ pieces = generate_oval

====
